---- MODULE Spec2Model ----
(***************************************************************************)
(* A model of src/app.py: the Flask service with a User relation, JWT      *)
(* login, and a CRUD API over the Employee relation.                       *)
(*                                                                         *)
(* Conventions.                                                            *)
(*  - A JSON value is a record [t, s, n]: a string, a number or null       *)
(*    (Python None).  A JSON object (Python dict) is a function whose      *)
(*    DOMAIN is the set of keys present.                                   *)
(*  - The decorator require_auth uses functools.wraps, which the file does *)
(*    not import (src/app.py:163); the model takes the decorator as it is  *)
(*    written, i.e. with wraps resolved.                                   *)
(*  - The storage engine is the default one of src/app.py:14 (SQLite): an  *)
(*    INTEGER PRIMARY KEY is the rowid, assigned as the largest id in the  *)
(*    table plus one; NOT NULL and UNIQUE are enforced at commit.          *)
(*  - Time is counted in hours, the unit of the token lifetime.            *)
(***************************************************************************)
EXTENDS Integers, Sequences, FiniteSets, TLC

VARIABLES
    users,      \* the User table: a set of rows [id, username, password_hash]
    employees,  \* the Employee table: id -> [name, surname, position, city]
    now,        \* the clock read by datetime.utcnow() and by jwt.decode
    issued,     \* the tokens handed out by login, held by clients
    workers,    \* each server process: where it is in seed_users / register
    last,       \* the request just handled and its response, until delivered
    deleted     \* history: the ids whose DELETE has succeeded

vars == <<users, employees, now, issued, workers, last, deleted>>

(***************************************************************************)
(* Bounds of the model.                                                    *)
(***************************************************************************)
MaxId == 2          \* ids handed out by the Employee table stay within 1..MaxId
MaxTime == 3        \* the clock runs over 0..MaxTime
MaxIssued == 2      \* tokens in circulation
NumWorkers == 2     \* server processes sharing the database

Workers == 1..NumWorkers

(***************************************************************************)
(* JSON values and objects.                                                *)
(***************************************************************************)
JStr(s) == [t |-> "str", s |-> s, n |-> 0]
JNum(n) == [t |-> "num", s |-> "", n |-> n]
JNull == [t |-> "null", s |-> "", n |-> 0]

IsStr(v) == v.t = "str"

\* Python truthiness: "", 0 and None are falsy.
Truthy(v) == (v.t = "str" /\ v.s # "") \/ (v.t = "num" /\ v.n # 0)

\* dict.get(k): the value, or None when the key is absent.
DictGet(data, k) == IF k \in DOMAIN data THEN data[k] ELSE JNull

EmptyDict == [k \in {} |-> JNull]

\* All JSON objects over the keys K, key k taking its values in Vals(k).
Dicts(K, Vals(_)) ==
    UNION { {d \in [S -> UNION {Vals(k) : k \in S}] : \A k \in S : d[k] \in Vals(k)}
            : S \in SUBSET K }

SeqToSet(s) == {s[i] : i \in 1..Len(s)}

SetMax(S) == CHOOSE m \in S : \A x \in S : x <= m

(***************************************************************************)
(* Users, password hashes, tokens.                                         *)
(***************************************************************************)
\* werkzeug's generate_password_hash / check_password_hash: the hash stands
\* for the password it was made from and is never equal to it.
generate_password_hash(password) == [method |-> "pbkdf2", of |-> password]

\* check_password_hash encodes the candidate, so a candidate that is not a
\* string raises; "raise" is that outcome.
check_password(user, password) ==
    IF ~IsStr(password) THEN "raise"
    ELSE IF user.password_hash = generate_password_hash(password.s) THEN "match"
    ELSE "mismatch"

\* Rows the table rejects: username is UNIQUE.
UniqueViolationNone(table, rows) == FALSE
UniqueViolation(table, rows) ==
    \/ \E r \in rows, u \in table : r.username = u.username
    \/ \E r1, r2 \in rows : r1 # r2 /\ r1.username = r2.username

NextUserId(table) == IF table = {} THEN 1 ELSE SetMax({u.id : u \in table}) + 1

\* The accounts of seed_users, in insertion order.
SeedAccounts ==
    << [username |-> "admin", password |-> "admin"],
       [username |-> "user1", password |-> "1234"],
       [username |-> "user2", password |-> "abcd"] >>

SeedRows(table) ==
    { [id |-> NextUserId(table) + i - 1,
       username |-> SeedAccounts[i].username,
       password_hash |-> generate_password_hash(SeedAccounts[i].password)]
      : i \in 1..Len(SeedAccounts) }

TokenHours == 2

\* login: "exp": utcnow() + timedelta(hours=2)
TokenExpiryShort(t) == t + 1
TokenExpiry(t) == t + TokenHours

NoToken == [user_id |-> 0, exp |-> 0, sig |-> "none"]
\* Signed with another key, and not a JWT at all.
ForgedToken == [user_id |-> 1, exp |-> MaxTime + TokenHours + 1, sig |-> "forged"]
GarbageToken == [user_id |-> 0, exp |-> 0, sig |-> "garbage"]

NoHeader == [scheme |-> "none", token |-> NoToken]
BasicHeader == [scheme |-> "Basic", token |-> NoToken]
Bearer(tok) == [scheme |-> "Bearer", token |-> tok]

\* jwt.decode(token, SECRET_KEY, algorithms=["HS256"]): the signature is checked
\* first, then the exp claim; a token is expired from its exp instant on
\* (PyJWT 2, the version whose encode returns the str that login puts in JSON).
JwtDecode(tok, t) ==
    IF tok.sig # "valid" THEN "InvalidTokenError"
    ELSE IF tok.exp <= t THEN "ExpiredSignatureError"
    ELSE "ok"

\* The wrapper of require_auth, up to the call of the wrapped handler.
require_auth(h, t) ==
    IF h.scheme # "Bearer"
    THEN [ok |-> FALSE, error |-> "Missing or invalid token", user_id |-> 0]
    ELSE IF JwtDecode(h.token, t) = "ExpiredSignatureError"
    THEN [ok |-> FALSE, error |-> "Token expired", user_id |-> 0]
    ELSE IF JwtDecode(h.token, t) = "InvalidTokenError"
    THEN [ok |-> FALSE, error |-> "Invalid token", user_id |-> 0]
    ELSE [ok |-> TRUE, error |-> "", user_id |-> h.token.user_id]

(***************************************************************************)
(* The Employee relation and its validators.                               *)
(***************************************************************************)
RequiredFields == <<"name", "surname", "position">>
EmployeeFields == <<"name", "surname", "position", "city">>

NoRow == [name |-> JNull, surname |-> JNull, position |-> JNull, city |-> JNull]

\* Every column of Employee is nullable=False.
NotNullViolation(row) == \E f \in SeqToSet(EmployeeFields) : row[f] = JNull

\* The rowid SQLite gives the next inserted row.
NextEmployeeId(table) ==
    IF DOMAIN table = {} THEN 1 ELSE SetMax(DOMAIN table) + 1

Verdict(valid, error, fields) == [valid |-> valid, error |-> error, fields |-> fields]

\* [field for field in required_fields if not data.get(field)]
MissingRequired(data) ==
    LET Falsy(f) == ~Truthy(DictGet(data, f)) IN SelectSeq(RequiredFields, Falsy)

validate_employee_data(data) ==
    LET WrongType(f) == f \in DOMAIN data /\ ~IsStr(data[f])
        missing == MissingRequired(data)
        wrong_types == SelectSeq(EmployeeFields, WrongType)
    IN  IF missing # <<>> THEN Verdict(FALSE, "Missing required fields", missing)
        ELSE IF wrong_types # <<>> THEN Verdict(FALSE, "Invalid field types", wrong_types)
        ELSE Verdict(TRUE, "", <<>>)

\* wrong_types lists the offending keys in the order of the request body; a
\* JSON object is modelled as a mapping, so the list is given in field order.
validate_employee_update_dataOmitted(data) ==
    LET WrongType(f) == f \in DOMAIN data /\ ~IsStr(data[f])
        Empty(f) == ~Truthy(DictGet(data, f))
        wrong_types == SelectSeq(EmployeeFields, WrongType)
        empty_required == SelectSeq(RequiredFields, Empty)
    IN  IF wrong_types # <<>> THEN Verdict(FALSE, "Invalid field types", wrong_types)
        ELSE IF empty_required # <<>>
        THEN Verdict(FALSE, "Required fields cannot be empty", empty_required)
        ELSE Verdict(TRUE, "", <<>>)
validate_employee_update_data(data) ==
    LET WrongType(f) == f \in DOMAIN data /\ ~IsStr(data[f])
        Empty(f) == f \in DOMAIN data /\ ~Truthy(data[f])
        wrong_types == SelectSeq(EmployeeFields, WrongType)
        empty_required == SelectSeq(RequiredFields, Empty)
    IN  IF wrong_types # <<>> THEN Verdict(FALSE, "Invalid field types", wrong_types)
        ELSE IF empty_required # <<>>
        THEN Verdict(FALSE, "Required fields cannot be empty", empty_required)
        ELSE Verdict(TRUE, "", <<>>)

\* for field in [...]: if field in data: setattr(employee, field, data[field])
SetFieldsNoCity(row, data) ==
    [f \in DOMAIN row |-> IF f \in DOMAIN data /\ f # "city" THEN data[f] ELSE row[f]]
SetFields(row, data) ==
    [f \in DOMAIN row |-> IF f \in DOMAIN data THEN data[f] ELSE row[f]]

(***************************************************************************)
(* Requests and responses.                                                 *)
(***************************************************************************)
Reply(op, h, id, data) ==
    [op |-> op, auth |-> h, id |-> id, data |-> data,
     status |-> 0, error |-> "", fields |-> <<>>, rid |-> 0,
     body |-> NoRow, old |-> NoRow, user_id |-> 0, token |-> NoToken]

NoReq == Reply("none", NoHeader, 0, EmptyDict)

\* A process that has finished start-up takes the request.
Serving == \E w \in Workers : workers[w].pc = "serving"

\* The previous response has left and a process is there to take a request.
Accepting == last = NoReq /\ Serving

Idle == [pc |-> "serving", data |-> EmptyDict]

(***************************************************************************)
(* Handlers of the Employee routes.                                        *)
(***************************************************************************)
\* POST /employee, behind require_auth.  The body is read by the handler, so
\* a request stopped by the wrapper is recorded without it.
create_employee(h, data) ==
    /\ Accepting
    /\ LET auth == require_auth(h, now)
           req == Reply("create", h, 0, data)
           missing == MissingRequired(data)
           v == validate_employee_data(data)
           row == [name |-> data["name"], surname |-> data["surname"],
                   position |-> data["position"], city |-> DictGet(data, "city")]
           id == NextEmployeeId(employees)
       IN  IF ~auth.ok
           THEN /\ last' = [req EXCEPT !.status = 401, !.error = auth.error]
                /\ UNCHANGED employees
           ELSE IF missing # <<>>
           THEN /\ last' = [req EXCEPT !.status = 400, !.user_id = auth.user_id,
                                       !.error = "Missing required fields",
                                       !.fields = missing]
                /\ UNCHANGED employees
           ELSE IF ~v.valid
           THEN /\ last' = [req EXCEPT !.status = 400, !.user_id = auth.user_id,
                                       !.error = v.error, !.fields = v.fields]
                /\ UNCHANGED employees
           ELSE IF NotNullViolation(row)
           THEN \* commit raises IntegrityError, nothing catches it
                /\ last' = [req EXCEPT !.status = 500, !.user_id = auth.user_id,
                                       !.error = "IntegrityError"]
                /\ UNCHANGED employees
           ELSE /\ id <= MaxId
                /\ employees' = [i \in DOMAIN employees \cup {id} |->
                                    IF i = id THEN row ELSE employees[i]]
                /\ last' = [req EXCEPT !.status = 201, !.user_id = auth.user_id,
                                       !.rid = id]
    /\ UNCHANGED <<users, now, issued, workers, deleted>>

\* DELETE /employee/<id>: no require_auth on this route.
delete_employee(h, employee_id) ==
    /\ Accepting
    /\ LET req == Reply("delete", h, employee_id, EmptyDict)
       IN  IF employee_id \notin DOMAIN employees
           THEN /\ last' = [req EXCEPT !.status = 404, !.error = "Not Found"]
                /\ UNCHANGED <<employees, deleted>>
           ELSE /\ employees' = [i \in DOMAIN employees \ {employee_id} |-> employees[i]]
                /\ deleted' = deleted \cup {employee_id}
                /\ last' = [req EXCEPT !.status = 200]
    /\ UNCHANGED <<users, now, issued, workers>>

\* GET /employee/<id>
get_employee(id) ==
    /\ Accepting
    /\ LET req == Reply("get", NoHeader, id, EmptyDict)
       IN  IF id \notin DOMAIN employees
           THEN last' = [req EXCEPT !.status = 404, !.error = "Employee not found"]
           ELSE last' = [req EXCEPT !.status = 200, !.rid = id, !.body = employees[id]]
    /\ UNCHANGED <<users, employees, now, issued, workers, deleted>>

\* PUT /employee/<id>, behind require_auth.
update_employee(h, id, data) ==
    /\ Accepting
    /\ LET auth == require_auth(h, now)
           req == Reply("update", h, id, data)
           v == validate_employee_update_data(data)
           row == SetFields(employees[id], data)
       IN  IF ~auth.ok
           THEN /\ last' = [req EXCEPT !.status = 401, !.error = auth.error]
                /\ UNCHANGED employees
           ELSE IF id \notin DOMAIN employees
           THEN /\ last' = [req EXCEPT !.status = 404, !.user_id = auth.user_id,
                                       !.error = "Employee not found"]
                /\ UNCHANGED employees
           ELSE IF ~v.valid
           THEN /\ last' = [req EXCEPT !.status = 400, !.user_id = auth.user_id,
                                       !.error = v.error, !.fields = v.fields,
                                       !.old = employees[id]]
                /\ UNCHANGED employees
           ELSE IF NotNullViolation(row)
           THEN /\ last' = [req EXCEPT !.status = 500, !.user_id = auth.user_id,
                                       !.error = "IntegrityError",
                                       !.old = employees[id]]
                /\ UNCHANGED employees
           ELSE /\ employees' = [employees EXCEPT ![id] = row]
                /\ last' = [req EXCEPT !.status = 200, !.user_id = auth.user_id,
                                       !.rid = id, !.old = employees[id]]
    /\ UNCHANGED <<users, now, issued, workers, deleted>>

(***************************************************************************)
(* Handlers of the Auth routes.                                            *)
(***************************************************************************)
\* User.query.filter_by(username=...).first()
FindUser(username) ==
    {u \in users : IsStr(username) /\ u.username = username.s}

\* POST /login
login(data) ==
    /\ Accepting
    /\ LET req == Reply("login", NoHeader, 0, data)
           found == FindUser(DictGet(data, "username"))
           user == CHOOSE u \in found : TRUE
           checked == check_password(user, DictGet(data, "password"))
           token == [user_id |-> user.id, exp |-> TokenExpiry(now), sig |-> "valid"]
       IN  IF found = {}
           THEN /\ last' = [req EXCEPT !.status = 401, !.error = "Invalid credentials"]
                /\ UNCHANGED issued
           ELSE IF checked = "raise"
           THEN \* the exception reaches Flask: Internal Server Error
                /\ last' = [req EXCEPT !.status = 500, !.error = "Internal Server Error"]
                /\ UNCHANGED issued
           ELSE IF checked = "mismatch"
           THEN /\ last' = [req EXCEPT !.status = 401, !.error = "Invalid credentials"]
                /\ UNCHANGED issued
           ELSE /\ token \in issued \/ Cardinality(issued) < MaxIssued
                /\ issued' = issued \cup {token}
                /\ last' = [req EXCEPT !.status = 200, !.token = token]
    /\ UNCHANGED <<users, employees, now, workers, deleted>>

\* POST /register, up to the lookup of the username (lines 100-105).
register_lookup(w, data) ==
    /\ last = NoReq
    /\ workers[w].pc = "serving"
    /\ LET req == Reply("register", NoHeader, w, data)
       IN  IF ~Truthy(DictGet(data, "username")) \/ ~Truthy(DictGet(data, "password"))
           THEN /\ last' = [req EXCEPT !.status = 400,
                                       !.error = "Username and password are required"]
                /\ UNCHANGED workers
           ELSE IF FindUser(data["username"]) # {}
           THEN /\ last' = [req EXCEPT !.status = 400,
                                       !.error = "Username already exists"]
                /\ UNCHANGED workers
           ELSE /\ workers' = [workers EXCEPT ![w] = [pc |-> "registering", data |-> data]]
                /\ UNCHANGED last
    /\ UNCHANGED <<users, employees, now, issued, deleted>>

\* POST /register, the insert and its commit (lines 107-111).  A commit that
\* breaks the UNIQUE constraint raises IntegrityError, which nothing catches.
register_commit(w) ==
    /\ last = NoReq
    /\ workers[w].pc = "registering"
    /\ LET data == workers[w].data
           req == Reply("register", NoHeader, w, data)
           user == [id |-> NextUserId(users),
                    username |-> data["username"].s,
                    password_hash |-> generate_password_hash(data["password"].s)]
       IN  IF UniqueViolation(users, {user})
           THEN /\ last' = [req EXCEPT !.status = 500, !.error = "IntegrityError"]
                /\ UNCHANGED users
           ELSE /\ users' = users \cup {user}
                /\ last' = [req EXCEPT !.status = 201]
    /\ workers' = [workers EXCEPT ![w] = Idle]
    /\ UNCHANGED <<employees, now, issued, deleted>>

(***************************************************************************)
(* Start-up of a process: db.create_all() and seed_users().                *)
(***************************************************************************)
\* if not User.query.first()
seed_lookup(w) ==
    /\ workers[w].pc = "boot"
    /\ workers' = [workers EXCEPT ![w].pc = IF users = {} THEN "seeding" ELSE "serving"]
    /\ UNCHANGED <<users, employees, now, issued, last, deleted>>

\* The three inserts and their one commit; an IntegrityError ends the import.
seed_commit(w) ==
    /\ workers[w].pc = "seeding"
    /\ IF UniqueViolation(users, SeedRows(users))
       THEN /\ workers' = [workers EXCEPT ![w].pc = "crashed"]
            /\ UNCHANGED users
       ELSE /\ workers' = [workers EXCEPT ![w].pc = "serving"]
            /\ users' = users \cup SeedRows(users)
    /\ UNCHANGED <<employees, now, issued, last, deleted>>

\* The response leaves; the next request can be taken.
Respond ==
    /\ last # NoReq
    /\ last' = NoReq
    /\ UNCHANGED <<users, employees, now, issued, workers, deleted>>

\* An hour passes.
Tick ==
    /\ now < MaxTime
    /\ now' = now + 1
    /\ UNCHANGED <<users, employees, issued, workers, last, deleted>>

(***************************************************************************)
(* Inputs.                                                                 *)
(***************************************************************************)
Headers == {NoHeader, BasicHeader, Bearer(GarbageToken), Bearer(ForgedToken)}
           \cup {Bearer(tok) : tok \in issued}

\* Non-empty strings a client sends for each field.
FieldStrings(f) ==
    CASE f = "name" -> {"Ann", "Bob"}
      [] f = "surname" -> {"Lee"}
      [] f = "position" -> {"Engineer"}
      [] f = "city" -> {"X"}

\* Values of arbitrary JSON type for a field of a creation body.
FieldValues(f) ==
    {JStr(s) : s \in FieldStrings(f)} \cup {JStr(""), JNum(0), JNum(7)}
    \cup (IF f = "city" THEN {JNull} ELSE {})

\* And of an update body, which may also carry an id.
UpdateValues(f) ==
    IF f = "id" THEN {JNum(9)}
    ELSE {JStr(s) : s \in FieldStrings(f)} \cup {JStr(""), JNum(0)}

CreateBodies == Dicts(SeqToSet(EmployeeFields), FieldValues)
UpdateBodies == Dicts(SeqToSet(EmployeeFields) \cup {"id"}, UpdateValues)

\* Complete bodies of strings: the ones a well-behaved client sends.
PlainBodies ==
    {d \in CreateBodies : DOMAIN d = SeqToSet(EmployeeFields)
                          /\ \A f \in DOMAIN d :
                                /\ IsStr(d[f])
                                /\ f \in SeqToSet(RequiredFields) => d[f].s # ""}

\* One partial body and one body with an empty required field.
PlainUpdates ==
    {d \in UpdateBodies : DOMAIN d = {"city"} /\ IsStr(d["city"])}
    \cup {d \in UpdateBodies : DOMAIN d = {"name"} /\ d["name"] = JStr("")}

AdminLogin == [k \in {"username", "password"} |-> JStr("admin")]

(***************************************************************************)
(* The state once one process has started: tables created, users seeded.   *)
(***************************************************************************)
SeededInit ==
    /\ users = SeedRows({})
    /\ employees = [i \in {} |-> NoRow]
    /\ now = 0
    /\ issued = {}
    /\ workers = [w \in Workers |-> Idle]
    /\ last = NoReq
    /\ deleted = {}

\* The request reaches the handler's body only past require_auth (and, for an
\* update, past the lookup of the record); otherwise the body is not read.
Create(bodies) ==
    /\ Accepting
    /\ \E h \in Headers :
        \E data \in (IF require_auth(h, now).ok THEN bodies ELSE {EmptyDict}) :
            create_employee(h, data)

Update(bodies) ==
    /\ Accepting
    /\ \E h \in Headers, id \in 1..MaxId :
        \E data \in (IF require_auth(h, now).ok /\ id \in DOMAIN employees
                     THEN bodies ELSE {EmptyDict}) :
            update_employee(h, id, data)

Delete == \E h \in Headers, id \in 1..MaxId : delete_employee(h, id)

Get == \E id \in 1..MaxId : get_employee(id)

LoginAdmin == login(AdminLogin)

(***************************************************************************)
(* Creation, lookup and deletion, with creation bodies of arbitrary JSON   *)
(* type; the clock stands still.                                           *)
(***************************************************************************)
CreateAny == Create(CreateBodies)

NextCreate == CreateAny \/ Get \/ Delete \/ LoginAdmin \/ Respond

SpecCreate == SeededInit /\ [][NextCreate]_vars

(***************************************************************************)
(* Updates with bodies of arbitrary JSON type, over records created from   *)
(* complete bodies; the clock stands still.                                *)
(***************************************************************************)
CreatePlain == Create(PlainBodies)

UpdateAny == Update(UpdateBodies)

NextUpdate == CreatePlain \/ UpdateAny \/ Get \/ LoginAdmin \/ Respond

SpecUpdate == SeededInit /\ [][NextUpdate]_vars

(***************************************************************************)
(* Tokens over time: logins of two seeded users, a running clock, and the  *)
(* two guarded routes with one body each.                                  *)
(***************************************************************************)
Credentials(username, password) ==
    [k \in {"username", "password"} |->
        IF k = "username" THEN JStr(username) ELSE JStr(password)]

TokenLogins ==
    {Credentials("admin", "admin"), Credentials("user1", "1234"),
     Credentials("user1", "admin")}

OneBody == {d \in PlainBodies : d["name"] = JStr("Ann") /\ d["city"] = JStr("")}

Login(bodies) == Accepting /\ \E data \in bodies : login(data)

LoginForToken == Login(TokenLogins)

CreateOne == Create(OneBody)

UpdatePlain == Update(PlainUpdates)

NextAuth == LoginForToken \/ Tick \/ CreateOne \/ UpdatePlain \/ Respond

SpecAuth == SeededInit /\ [][NextAuth]_vars

(***************************************************************************)
(* The User relation under concurrency: processes starting up against an   *)
(* empty database, registrations interleaved at their commit, logins.      *)
(***************************************************************************)
BootInit ==
    /\ users = {}
    /\ employees = [i \in {} |-> NoRow]
    /\ now = 0
    /\ issued = {}
    /\ workers = [w \in Workers |-> [pc |-> "boot", data |-> EmptyDict]]
    /\ last = NoReq
    /\ deleted = {}

RegisterValues(k) ==
    IF k = "username" THEN {JStr("admin"), JStr("ghost"), JStr("")}
    ELSE {JStr("pw"), JStr("")}

LoginValues(k) ==
    IF k = "username" THEN {JStr("admin"), JStr("ghost")}
    ELSE {JStr("admin"), JStr("pw"), JNum(5)}

RegisterBodies == Dicts({"username", "password"}, RegisterValues)
LoginBodies == Dicts({"username", "password"}, LoginValues)

SeedLookup == \E w \in Workers : seed_lookup(w)
SeedCommit == \E w \in Workers : seed_commit(w)
RegisterLookup ==
    /\ last = NoReq
    /\ \E w \in Workers, data \in RegisterBodies : register_lookup(w, data)
RegisterCommit == \E w \in Workers : register_commit(w)
LoginAny == Login(LoginBodies)

NextUsers ==
    SeedLookup \/ SeedCommit \/ RegisterLookup \/ RegisterCommit \/ LoginAny \/ Respond

SpecUsers == BootInit /\ [][NextUsers]_vars

(***************************************************************************)
(* Vocabulary of the properties, in the words of the specification.        *)
(***************************************************************************)
\* The step in which the handler of op runs, from request to response.
Handles(op) == last.op = "none" /\ last'.op = op

\* A bearer token that login issued and whose expiry lies ahead.
ValidBearer(h, t) == h.scheme = "Bearer" /\ h.token \in issued /\ t < h.token.exp

Required == {"name", "surname", "position"}
Fields == {"name", "surname", "position", "city"}

\* Section 4.1, rule 1: absent or the empty string.
MissingBySpec(d) == {f \in Required : f \notin DOMAIN d \/ d[f] = JStr("")}
\* Section 4.1, rule 2: present with a value that is not a string.
WrongTypeBySpec(d) == {f \in Fields : f \in DOMAIN d /\ d[f].t # "str"}
\* Section 4.1, rule 3: required, present and empty.
EmptyBySpec(d) == {f \in Required : f \in DOMAIN d /\ d[f] = JStr("")}

\* Non-empty string name, surname and position; city a string or omitted.
ValidCreation(d) ==
    /\ \A f \in Required : f \in DOMAIN d /\ d[f].t = "str" /\ d[f].s # ""
    /\ "city" \in DOMAIN d => d["city"].t = "str"

\* The record a creation body describes, city null when omitted.
Submitted(d) ==
    [f \in Fields |-> IF f \in DOMAIN d THEN d[f] ELSE JNull]

Others(table, id) == [i \in DOMAIN table \ {id} |-> table[i]]

(***************************************************************************)
(* Properties of creation, lookup and deletion (SpecCreate).               *)
(***************************************************************************)
\* C2: every authenticated create whose payload passes validation returns an
\* id that no stored record has, the record stored under it carries exactly
\* the submitted name, surname, position and city (null when omitted), the
\* other records stay as they were, and a get of a stored id returns the
\* stored record.
C2_CreateThenGet ==
    [][ /\ ( Handles("create") /\ ValidBearer(last'.auth, now)
             /\ ValidCreation(last'.data) )
           => /\ last'.status = 201
              /\ last'.rid \notin DOMAIN employees
              /\ DOMAIN employees' = DOMAIN employees \cup {last'.rid}
              /\ employees'[last'.rid] = Submitted(last'.data)
              /\ Others(employees', last'.rid) = employees
        /\ ( Handles("get") /\ last'.id \in DOMAIN employees )
           => /\ last'.status = 200
              /\ last'.body = employees[last'.id]
      ]_vars

\* C3: an authenticated create with a valid payload, city given or omitted,
\* always ends in 201 with the new record stored.
C3_ValidCreateSucceeds ==
    ( last.op = "create" /\ last.status # 401 /\ ValidCreation(last.data) )
    => ( last.status = 201 /\ last.rid \in DOMAIN employees )

\* C4: the create validator follows the ordered rules: MissingFields naming
\* exactly the required fields absent or empty; otherwise InvalidFieldTypes
\* naming exactly the present fields that are not strings; otherwise no
\* validation failure.  A rejected creation stores nothing.
C4_CreateValidatorRules ==
    [][ ( Handles("create") /\ last'.status # 401 )
        => LET d == last'.data IN
           IF MissingBySpec(d) # {}
           THEN /\ last'.status = 400
                /\ last'.error = "Missing required fields"
                /\ SeqToSet(last'.fields) = MissingBySpec(d)
                /\ employees' = employees
           ELSE IF WrongTypeBySpec(d) # {}
           THEN /\ last'.status = 400
                /\ last'.error = "Invalid field types"
                /\ SeqToSet(last'.fields) = WrongTypeBySpec(d)
                /\ employees' = employees
           ELSE last'.status # 400
      ]_vars

\* C7: once a delete of id has succeeded, every later get of id answers 404,
\* whatever is created afterwards; a successful delete leaves the other
\* records as they were; a delete of an id that is not stored answers 404
\* and changes nothing.
C7_DeleteIsPermanent ==
    [][ /\ ( Handles("get") /\ last'.id \in deleted ) => last'.status = 404
        /\ ( Handles("delete") /\ last'.id \in DOMAIN employees )
           => /\ last'.status = 200
              /\ employees' = Others(employees, last'.id)
        /\ ( Handles("delete") /\ last'.id \notin DOMAIN employees )
           => /\ last'.status = 404
              /\ employees' = employees
      ]_vars

(***************************************************************************)
(* Properties of update (SpecUpdate).                                      *)
(***************************************************************************)
\* C5: a successful update sets exactly the fields of name, surname,
\* position, city present in the payload to the given values; every other
\* field of the record, the id under which it is stored, and every other
\* record stay as they were, also when the payload carries an id key.
C5_UpdateSetsPresentFields ==
    [][ ( Handles("update") /\ last'.status = 200 )
        => LET id == last'.id
               d == last'.data
           IN  /\ id \in DOMAIN employees
               /\ DOMAIN employees' = DOMAIN employees
               /\ \A i \in DOMAIN employees \ {id} : employees'[i] = employees[i]
               /\ \A f \in Fields :
                     employees'[id][f] =
                        IF f \in DOMAIN d THEN d[f] ELSE employees[id][f]
      ]_vars

\* C5 witness: an update carrying only city and an id key has changed city
\* from "" to "X" while a second record is stored.
C5_Witness ==
    /\ last.op = "update" /\ last.status = 200
    /\ DOMAIN last.data = {"city", "id"}
    /\ last.data["city"] = JStr("X")
    /\ last.old.city = JStr("")
    /\ employees[last.id].city = JStr("X")
    /\ employees[last.id].name = last.old.name
    /\ Cardinality(DOMAIN employees) = 2

\* C6 as stated: in an update that reaches validation, an omitted required
\* field is never a cause of rejection; a payload with a required field
\* present and empty is rejected with EmptyRequiredFields naming exactly the
\* present-and-empty required fields; a rejected update changes no record.
C6_AsStated ==
    [][ ( Handles("update") /\ last'.status \notin {401, 404} )
        => LET d == last'.data IN
           /\ EmptyBySpec(d) # {}
              => /\ last'.status = 400
                 /\ last'.error = "Required fields cannot be empty"
                 /\ SeqToSet(last'.fields) = EmptyBySpec(d)
           /\ last'.status = 400 => SeqToSet(last'.fields) \subseteq DOMAIN d
           /\ ( EmptyBySpec(d) = {} /\ WrongTypeBySpec(d) = {} ) => last'.status = 200
           /\ last'.status = 400 => employees' = employees
      ]_vars

\* C6 amended: as C6, with EmptyRequiredFields promised only when every
\* present field is a string; a payload with a present field that is not a
\* string is rejected with InvalidFieldTypes naming exactly those fields,
\* whether or not a required field is also present and empty.
C6_TypesBeforeEmptiness ==
    [][ ( Handles("update") /\ last'.status \notin {401, 404} )
        => LET d == last'.data IN
           /\ ( EmptyBySpec(d) # {} /\ WrongTypeBySpec(d) = {} )
              => /\ last'.status = 400
                 /\ last'.error = "Required fields cannot be empty"
                 /\ SeqToSet(last'.fields) = EmptyBySpec(d)
           /\ WrongTypeBySpec(d) # {}
              => /\ last'.status = 400
                 /\ last'.error = "Invalid field types"
                 /\ SeqToSet(last'.fields) = WrongTypeBySpec(d)
           /\ last'.status = 400 => SeqToSet(last'.fields) \subseteq DOMAIN d
           /\ ( EmptyBySpec(d) = {} /\ WrongTypeBySpec(d) = {} ) => last'.status = 200
           /\ last'.status = 400 => employees' = employees
      ]_vars

\* C6 witness: an update omitting surname and position and giving an empty
\* name was rejected for the empty name alone, and the record is as it was.
C6_Witness ==
    /\ last.op = "update" /\ last.status = 400
    /\ last.error = "Required fields cannot be empty"
    /\ DOMAIN last.data = {"name", "city"}
    /\ last.data["city"] = JStr("X")
    /\ last.fields = <<"name">>
    /\ last.old.city = JStr("")
    /\ employees[last.id] = last.old

(***************************************************************************)
(* Properties of the guarded routes and of tokens.                         *)
(***************************************************************************)
\* C1: a request to a mutating Employee route (create, update, delete) that
\* does not carry a valid, unexpired bearer token is answered 401 and leaves
\* the Employee table as it was.
C1_MutationNeedsToken ==
    [][ ( (Handles("create") \/ Handles("update") \/ Handles("delete"))
          /\ ~ValidBearer(last'.auth, now) )
        => ( last'.status = 401 /\ employees' = employees )
      ]_vars

\* C8: a successful login at time t issues a token for the user logging in
\* with expiry t + 2; on a guarded route an issued token presented before
\* its expiry authenticates and hands its user id to the handler, presented
\* after its expiry it is answered 401; a request stopped by the token check
\* leaves the User and Employee tables as they were.
C8_TokenLifetime ==
    [][ /\ ( Handles("login") /\ last'.status = 200 )
           => /\ last'.token.exp = now + 2
              /\ \E u \in users : /\ JStr(u.username) = last'.data["username"]
                                  /\ last'.token.user_id = u.id
              /\ issued' = issued \cup {last'.token}
        /\ ( (Handles("create") \/ Handles("update"))
             /\ last'.auth.scheme = "Bearer" /\ last'.auth.token \in issued )
           => /\ now < last'.auth.token.exp
                 => ( last'.status # 401
                      /\ last'.user_id = last'.auth.token.user_id )
              /\ now > last'.auth.token.exp => last'.status = 401
        /\ ( (Handles("create") \/ Handles("update")) /\ last'.status = 401 )
           => ( users' = users /\ employees' = employees )
      ]_vars

\* C8 witness: the token that authenticated a create earlier is presented
\* after its expiry and answered 401.
C8_Witness ==
    /\ last.op = "create" /\ last.status = 401 /\ last.error = "Token expired"
    /\ last.auth.token \in issued
    /\ now > last.auth.token.exp
    /\ issued = {last.auth.token}
    /\ DOMAIN employees # {}

(***************************************************************************)
(* Properties of the User relation (SpecUsers).                            *)
(***************************************************************************)
\* C9: no two User rows share a username, in every state reached by any
\* interleaving of start-ups and registrations; a register for a username
\* that exists fails and leaves the User table as it was.
C9_UsernamesUnique ==
    /\ [](\A u1, u2 \in users : u1.username = u2.username => u1 = u2)
    /\ [][ ( Handles("register")
             /\ \E u \in users : JStr(u.username) = DictGet(last'.data, "username") )
           => ( last'.status \in {400, 500} /\ users' = users )
         ]_vars

\* C9 witness: of two registers that both passed the lookup for "ghost", the
\* second to commit has failed, and one "ghost" row exists.
C9_Witness ==
    /\ last.op = "register" /\ last.status = 500
    /\ last.data["username"] = JStr("ghost")
    /\ Cardinality({u \in users : u.username = "ghost"}) = 1
    /\ Cardinality(users) = Len(SeedAccounts) + 1

\* C10: a login for a username that does not exist and a login for an
\* existing username with a password that is not that user's have the same
\* outcome: 401 with the body "Invalid credentials", no token, and nothing
\* changed.
C10_LoginUniform ==
    [][ ( Handles("login")
          /\ LET name == DictGet(last'.data, "username")
                 pw == DictGet(last'.data, "password")
             IN  \A u \in users :
                    JStr(u.username) = name
                    => ( pw.t # "str" \/ pw.s # u.password_hash.of ) )
        => /\ last'.status = 401
           /\ last'.error = "Invalid credentials"
           /\ last'.token = NoToken
           /\ users' = users /\ issued' = issued
      ]_vars

====
